---- MODULE Spec2Model ----
(***************************************************************************)
(* A model of termimad's InputField (src/views/input_field.rs): the scroll *)
(* synchronizer fix_scroll, the public operations that wrap the text       *)
(* buffer, and the event entry points.                                     *)
(*                                                                         *)
(* The text buffer (InputFieldContent) and Area are collaborators whose    *)
(* code is not part of input_field.rs; they are modelled from the          *)
(* operation contract of the specification.  A line is represented by its  *)
(* number of characters: the widget never inspects the value of a          *)
(* character when it computes a scroll or dispatches an event.             *)
(***************************************************************************)
EXTENDS Integers, Sequences, FiniteSets, TLC

VARIABLES
    lines,          \* content.lines(): the length of each line, at least one line
    pos,            \* content.cursor_pos(): [x, y]
    area,           \* self.area: [left, top, width, height]
    focused,        \* self.focused
    scroll,         \* self.scroll: [x, y]
    new_line_keys,  \* self.new_line_keys, as the set of the keys pushed
    panicked,       \* an arithmetic overflow check aborted the last operation
    op,             \* the public operation called last ("unknown": any)
    arg,            \* the event it was given (a click, a key), <<>> otherwise
    ret,            \* the value it returned: "true", "false", or "none" (a unit
                    \* function, a panic)
    fixed,          \* whether fix_scroll ran inside it
    req             \* the Pos it passed to content.set_cursor_pos, <<>> if none

vars == <<lines, pos, area, focused, scroll, new_line_keys, panicked,
          op, arg, ret, fixed, req>>

\* ------------------------------------------------------------------ bounds

MaxLines == 3
MaxChars == 2
MaxWidth == 2
MaxHeight == 1
MaxOffset == 1

\* The inputs fix_scroll is run on, on its own.
FixMaxLines == 6
FixMaxLen == 4
FixMaxWidth == 4
FixMaxHeight == 5

\* usize is a 64-bit word; the model's integers are 32-bit, so the word is
\* modelled by the largest modulus they hold.  A wrapped value is only ever
\* compared with a line length.
UsizeModulus == 2147483647

Min(a, b) == IF a < b THEN a ELSE b

Pos(x, y) == [x |-> x, y |-> y]

RECURSIVE Sum(_)
Sum(ls) == IF ls = <<>> THEN 0 ELSE Head(ls) + Sum(Tail(ls))

\* The buffers explored: at most MaxLines lines, MaxChars characters in all.
Buffers ==
    {ls \in UNION {[1..n -> 0..MaxChars] : n \in 1..MaxLines} :
        Sum(ls) <= MaxChars}

Areas == [left : 0..MaxOffset, top : 0..MaxOffset,
          width : 0..MaxWidth, height : 0..MaxHeight]

\* ------------------------------------------------- InputFieldContent, Area

LineLen(ls, y) == ls[y + 1]

ContentEnd(ls) == Pos(ls[Len(ls)], Len(ls) - 1)

Content(ls, p, changed) == [lines |-> ls, pos |-> p, changed |-> changed]

Moved(ls, p, q) == Content(ls, q, q # p)

content_insert_char(ls, p) ==
    Content([ls EXCEPT ![p.y + 1] = @ + 1], Pos(p.x + 1, p.y), TRUE)

content_insert_new_line(ls, p) ==
    Content(SubSeq(ls, 1, p.y) \o <<p.x, LineLen(ls, p.y) - p.x>>
                \o SubSeq(ls, p.y + 2, Len(ls)),
            Pos(0, p.y + 1), TRUE)

content_clear == Content(<<0>>, Pos(0, 0), TRUE)

\* The cursor goes to the end if the content is different.  Two strings of
\* the same line lengths may or may not be the same string.
content_set_str(ls, p, s) ==
    {Content(s, ContentEnd(s), TRUE)}
        \cup (IF s = ls THEN {Content(ls, p, FALSE)} ELSE {})

\* s is typed at the cursor: its first line joins the text left of the
\* cursor, its last line the text right of it.
content_insert_str(ls, p, s) ==
    LET n == Len(s)
        rest == LineLen(ls, p.y) - p.x
        mid == IF n = 1
               THEN <<LineLen(ls, p.y) + s[1]>>
               ELSE <<p.x + s[1]>> \o SubSeq(s, 2, n - 1) \o <<s[n] + rest>>
    IN Content(SubSeq(ls, 1, p.y) \o mid \o SubSeq(ls, p.y + 2, Len(ls)),
               IF n = 1 THEN Pos(p.x + s[1], p.y) ELSE Pos(s[n], p.y + n - 1),
               n > 1 \/ s[1] > 0)

JoinWithNext(ls, y) ==
    SubSeq(ls, 1, y) \o <<ls[y + 1] + ls[y + 2]>> \o SubSeq(ls, y + 3, Len(ls))

content_del_char_below(ls, p) ==
    IF p.x < LineLen(ls, p.y)
    THEN Content([ls EXCEPT ![p.y + 1] = @ - 1], p, TRUE)
    ELSE IF p.y + 1 < Len(ls)
         THEN Content(JoinWithNext(ls, p.y), p, TRUE)
         ELSE Content(ls, p, FALSE)

content_del_char_left(ls, p) ==
    IF p.x > 0
    THEN Content([ls EXCEPT ![p.y + 1] = @ - 1], Pos(p.x - 1, p.y), TRUE)
    ELSE IF p.y > 0
         THEN Content(JoinWithNext(ls, p.y - 1),
                      Pos(LineLen(ls, p.y - 1), p.y - 1), TRUE)
         ELSE Content(ls, p, FALSE)

\* Where a word starts or ends depends on the characters: any number of
\* characters of the line, at least one, may be covered.
content_del_word_left(ls, p) ==
    IF p.x = 0 THEN {Content(ls, p, FALSE)}
    ELSE {Content([ls EXCEPT ![p.y + 1] = @ - k], Pos(p.x - k, p.y), TRUE) :
             k \in 1..p.x}

content_del_word_right(ls, p) ==
    IF p.x = LineLen(ls, p.y) THEN {Content(ls, p, FALSE)}
    ELSE {Content([ls EXCEPT ![p.y + 1] = @ - k], p, TRUE) :
             k \in 1..(LineLen(ls, p.y) - p.x)}

content_move_lines_up(ls, p, n) ==
    LET y == p.y - Min(n, p.y)
    IN Moved(ls, p, Pos(Min(p.x, LineLen(ls, y)), y))

content_move_lines_down(ls, p, n) ==
    LET y == Min(p.y + n, Len(ls) - 1)
    IN Moved(ls, p, Pos(Min(p.x, LineLen(ls, y)), y))

content_move_left(ls, p) ==
    IF p.x > 0 THEN Moved(ls, p, Pos(p.x - 1, p.y))
    ELSE IF p.y > 0 THEN Moved(ls, p, Pos(LineLen(ls, p.y - 1), p.y - 1))
         ELSE Content(ls, p, FALSE)

content_move_right(ls, p) ==
    IF p.x < LineLen(ls, p.y) THEN Moved(ls, p, Pos(p.x + 1, p.y))
    ELSE IF p.y + 1 < Len(ls) THEN Moved(ls, p, Pos(0, p.y + 1))
         ELSE Content(ls, p, FALSE)

content_move_word_left(ls, p) ==
    IF p.x = 0 THEN {Content(ls, p, FALSE)}
    ELSE {Moved(ls, p, Pos(x, p.y)) : x \in 0..(p.x - 1)}

content_move_word_right(ls, p) ==
    IF p.x = LineLen(ls, p.y) THEN {Content(ls, p, FALSE)}
    ELSE {Moved(ls, p, Pos(x, p.y)) : x \in (p.x + 1)..LineLen(ls, p.y)}

\* The buffer keeps its cursor on a line and within that line.
content_set_cursor_pos(ls, q) ==
    IF q.y >= Len(ls) THEN ContentEnd(ls)
    ELSE Pos(Min(q.x, LineLen(ls, q.y)), q.y)

WrappedFuns ==
    {"move_up", "move_down", "move_left", "move_right", "move_to_start",
     "move_to_end", "move_to_line_start", "move_to_line_end",
     "move_word_left", "move_word_right", "del_char_left", "del_word_left",
     "del_word_right"}

\* The outcomes of content.$fun() for the functions wrap_content_fun! wraps.
ContentFun(fun, ls, p) ==
    CASE fun = "move_up" -> {content_move_lines_up(ls, p, 1)}
      [] fun = "move_down" -> {content_move_lines_down(ls, p, 1)}
      [] fun = "move_left" -> {content_move_left(ls, p)}
      [] fun = "move_right" -> {content_move_right(ls, p)}
      [] fun = "move_to_start" -> {Moved(ls, p, Pos(0, 0))}
      [] fun = "move_to_end" -> {Moved(ls, p, ContentEnd(ls))}
      [] fun = "move_to_line_start" -> {Moved(ls, p, Pos(0, p.y))}
      [] fun = "move_to_line_end" -> {Moved(ls, p, Pos(LineLen(ls, p.y), p.y))}
      [] fun = "move_word_left" -> content_move_word_left(ls, p)
      [] fun = "move_word_right" -> content_move_word_right(ls, p)
      [] fun = "del_char_left" -> {content_del_char_left(ls, p)}
      [] fun = "del_word_left" -> content_del_word_left(ls, p)
      [] fun = "del_word_right" -> content_del_word_right(ls, p)

AreaContains(ar, x, y) ==
    /\ ar.left <= x /\ x < ar.left + ar.width
    /\ ar.top <= y /\ y < ar.top + ar.height

\* Area::scrollbar is Some exactly when the content is higher than the area.
HasScrollbar(ar, n) == n > ar.height

\* -------------------------------------------------------------- fix_scroll

has_y_scroll(ls, ar) == Len(ls) > ar.height

\* `width -= 1` on a width of 0: a build with overflow checks panics there,
\* a build without them wraps.
WidthUnderflows(ls, ar) == has_y_scroll(ls, ar) /\ ar.width = 0

WrappingSub(a, b) == IF a >= b THEN a - b ELSE a - b + UsizeModulus

EffectiveWidth(ls, ar) ==
    IF has_y_scroll(ls, ar) THEN WrappingSub(ar.width, 1) ELSE ar.width

\* The cursor is above the window.
ScrollToCursorAbove(py, height) ==
    IF py > 0 /\ height > 4 THEN py - 1 ELSE py

\* ScrollToCursorBelow pulling back one line on the last line too.
ScrollToCursorBelow_always_back(py, height, n) == (py - height + 1) - 1

\* The cursor is below the window.
ScrollToCursorBelow(py, height, n) ==
    IF py + 1 < n THEN (py - height + 1) - 1 ELSE py - height + 1

fix_scroll_y(height, foc, sy, n, py) ==
    IF ~(n > height) THEN 0
    ELSE LET clamped == IF sy + height > n THEN n - height ELSE sy
         IN IF ~foc THEN clamped
            ELSE IF clamped > py THEN ScrollToCursorAbove(py, height)
            ELSE IF py >= clamped + height
                 THEN ScrollToCursorBelow(py, height, n)
                 ELSE clamped

\* Widths below 4, where no ellipsis is shown.
NarrowScrollX(width, sx, px) ==
    IF px < 2 THEN 0
    ELSE IF px < sx + 1 THEN px - 1
    ELSE IF px > sx + width THEN px + 1 - width
    ELSE sx

WideScrollX(width, sx, px) ==
    IF px < sx + 2 THEN (IF px < 2 THEN 0 ELSE px - 2)
    ELSE IF px > sx + width - 2 THEN px + 2 - width
    ELSE sx

\* ClampScrollX without its clamp.
ClampScrollX_none(width, sx, line_len) == sx

ClampScrollX(width, sx, line_len) ==
    IF sx + width > line_len + 1 THEN line_len + 1 - width ELSE sx

fix_scroll_x(width, foc, sx, line_len, px) ==
    IF line_len < width THEN 0
    ELSE ClampScrollX(width,
                      IF ~foc THEN sx
                      ELSE IF width < 4 THEN NarrowScrollX(width, sx, px)
                           ELSE WideScrollX(width, sx, px),
                      line_len)

\* The scroll fix_scroll leaves, when it completes.
fix_scroll(ar, foc, sc, ls, p) ==
    Pos(fix_scroll_x(EffectiveWidth(ls, ar), foc, sc.x, LineLen(ls, p.y), p.x),
        fix_scroll_y(ar.height, foc, sc.y, Len(ls), p.y))

\* ------------------------------------------------------------- InputField

\* What a method does to the field before it returns: the buffer and the
\* focus it leaves, the value it returns, whether it calls fix_scroll, and
\* the Pos it hands to content.set_cursor_pos.
Bool(b) == IF b THEN "true" ELSE "false"

Outcome(c, r, fix) ==
    [lines |-> c.lines, pos |-> c.pos, focused |-> focused,
     ret |-> r, fix |-> fix, req |-> <<>>]

Unhandled == Outcome(Content(lines, pos, FALSE), "false", FALSE)

set_str(s) ==
    {Outcome(c, "none", TRUE) : c \in content_set_str(lines, pos, s)}

insert_new_line == {Outcome(content_insert_new_line(lines, pos), "true", TRUE)}

put_char == {Outcome(content_insert_char(lines, pos), "true", TRUE)}

clear == {Outcome(content_clear, "none", TRUE)}

del_char_below ==
    LET c == content_del_char_below(lines, pos)
    IN {Outcome(c, Bool(c.changed), FALSE)}

insert_str(s) == {Outcome(content_insert_str(lines, pos, s), "none", TRUE)}

\* wrap_content_fun! running fix_scroll whether the buffer changed or not.
wrap_content_fun_always_fixes(fun) ==
    {Outcome(c, Bool(c.changed), TRUE) : c \in ContentFun(fun, lines, pos)}

wrap_content_fun(fun) ==
    {Outcome(c, Bool(c.changed), c.changed) : c \in ContentFun(fun, lines, pos)}

page_up ==
    LET c == content_move_lines_up(lines, pos, area.height)
    IN {Outcome(c, Bool(c.changed), c.changed)}

page_down ==
    LET c == content_move_lines_down(lines, pos, area.height)
    IN {Outcome(c, Bool(c.changed), c.changed)}

KeyCodes ==
    {"Home", "End", "Char", "Up", "Down", "Left", "Right", "PageUp",
     "PageDown", "Backspace", "Delete", "Enter"}

KeyModifiers == {"NONE", "SHIFT", "ALT", "CONTROL"}

KeyEvents == [code : KeyCodes, modifiers : KeyModifiers]

ENTER == [code |-> "Enter", modifiers |-> "NONE"]

ALT_ENTER == [code |-> "Enter", modifiers |-> "ALT"]

\* The dispatch of apply_keycode_event, whatever the focus.
KeyCodeDispatch(code) ==
    CASE code = "Home" -> wrap_content_fun("move_to_line_start")
      [] code = "End" -> wrap_content_fun("move_to_line_end")
      [] code = "Char" -> put_char
      [] code = "Up" -> wrap_content_fun("move_up")
      [] code = "Down" -> wrap_content_fun("move_down")
      [] code = "Left" -> wrap_content_fun("move_left")
      [] code = "PageUp" -> page_up
      [] code = "PageDown" -> page_down
      [] code = "Right" -> wrap_content_fun("move_right")
      [] code = "Backspace" -> wrap_content_fun("del_char_left")
      [] code = "Delete" -> del_char_below
      [] OTHER -> {Unhandled}

\* apply_keycode_event without its test of the focus.
apply_keycode_event_unfocused_too(code) == KeyCodeDispatch(code)

apply_keycode_event(code) ==
    IF ~focused THEN {Unhandled} ELSE KeyCodeDispatch(code)

\* apply_key_event forwarding the key code whatever the modifiers.
apply_key_event_any_modifier(key) ==
    IF ~focused THEN {Unhandled}
    ELSE IF key \in new_line_keys
         THEN {[o EXCEPT !.ret = "true"] : o \in insert_new_line}
         ELSE apply_keycode_event(key.code)

\* apply_key_event filtering the modifiers before it looks for a new line key.
apply_key_event_filter_first(key) ==
    IF ~focused THEN {Unhandled}
    ELSE IF key.modifiers \in {"NONE", "SHIFT"}
         THEN IF key \in new_line_keys
              THEN {[o EXCEPT !.ret = "true"] : o \in insert_new_line}
              ELSE apply_keycode_event(key.code)
         ELSE {Unhandled}

apply_key_event(key) ==
    IF ~focused THEN {Unhandled}
    ELSE IF key \in new_line_keys
         THEN {[o EXCEPT !.ret = "true"] : o \in insert_new_line}
         ELSE IF key.modifiers \in {"NONE", "SHIFT"}
              THEN apply_keycode_event(key.code)
              ELSE {Unhandled}

\* ClickPos without the scroll.
ClickPos_unscrolled(x, y) == Pos(x - area.left, y - area.top)

\* The buffer position a click at cell (x, y) of the screen asks for.
ClickPos(x, y) ==
    Pos((x - area.left) + scroll.x, (y - area.top) + scroll.y)

\* apply_click_event giving the focus before it looks at the area.
apply_click_event_focus_first(x, y) ==
    IF ~focused THEN {[Unhandled EXCEPT !.focused = TRUE, !.ret = "true"]}
    ELSE IF AreaContains(area, x, y)
         THEN {[Unhandled EXCEPT
                   !.pos = content_set_cursor_pos(lines, ClickPos(x, y)),
                   !.req = ClickPos(x, y), !.ret = "true"]}
         ELSE {Unhandled}

\* apply_click_event placing the cursor whether focused or not.
apply_click_event_always_moves(x, y) ==
    IF AreaContains(area, x, y)
    THEN {[Unhandled EXCEPT
              !.pos = content_set_cursor_pos(lines, ClickPos(x, y)),
              !.req = ClickPos(x, y), !.focused = TRUE, !.ret = "true"]}
    ELSE {Unhandled}

apply_click_event(x, y) ==
    IF AreaContains(area, x, y)
    THEN IF focused
         THEN {[Unhandled EXCEPT
                   !.pos = content_set_cursor_pos(lines, ClickPos(x, y)),
                   !.req = ClickPos(x, y), !.ret = "true"]}
         ELSE {[Unhandled EXCEPT !.focused = TRUE, !.ret = "true"]}
    ELSE {Unhandled}

\* Event::Click(x, y), Event::Key(key), or another event (a resize, ...).
apply_event(event) ==
    IF event.type = "Click" THEN apply_click_event(event.x, event.y)
    ELSE IF event.type = "Key" /\ event.key.modifiers \in {"NONE", "SHIFT"}
         THEN apply_keycode_event(event.key.code)
         ELSE {Unhandled}

\* -------------------------------------------------------------- display_on

\* The columns display_on writes the line in: the area's, less the
\* scrollbar's.
DisplayWidth ==
    IF HasScrollbar(area, Len(lines)) THEN WrappingSub(area.width, 1)
    ELSE area.width

Cell(glyph, style) == [glyph |-> glyph, style |-> style]

ellipsis_at_start(width) == scroll.x > 0 /\ width > 4

cursor_at_end(y) == focused /\ y = pos.y /\ pos.x = LineLen(lines, y)

ellipsis_at_end(width, y) ==
    /\ ~cursor_at_end(y)
    /\ LineLen(lines, y) > scroll.x + width
    /\ width > 4

\* The cell written at column i for the line y of the buffer.
LineCell(width, y, i) ==
    LET idx == i + scroll.x
    IN IF i = 0 /\ ellipsis_at_start(width) /\ LineLen(lines, y) > 0
       THEN Cell("ellipsis", "normal")
       ELSE IF i = width - 1 /\ ellipsis_at_end(width, y)
       THEN Cell("ellipsis", "normal")
       ELSE IF idx >= LineLen(lines, y)
       THEN Cell("space", IF cursor_at_end(y) /\ idx = LineLen(lines, y)
                          THEN "cursor" ELSE "normal")
       ELSE Cell("char", IF focused /\ pos.x = idx /\ pos.y = y
                         THEN "cursor" ELSE "normal")

\* The cell display_on writes at row j, column i of the area.
display_on(j, i) ==
    IF scroll.y + j < Len(lines)
    THEN LineCell(DisplayWidth, scroll.y + j, i)
    ELSE Cell("space", "normal")

\* ---------------------------------------------------------------- actions

InBounds(ls) == Len(ls) <= MaxLines /\ Sum(ls) <= MaxChars

\* A public function returns: the buffer, area and focus are as the function
\* left them, and fix_scroll has run if the function calls it.
Return(name, a, o, ar) ==
    /\ lines' = o.lines /\ pos' = o.pos /\ area' = ar /\ focused' = o.focused
    /\ op' = name /\ arg' = a /\ req' = o.req
    /\ UNCHANGED new_line_keys
    /\ IF o.fix /\ WidthUnderflows(o.lines, ar)
       THEN \/ /\ panicked' = TRUE
               /\ scroll' = scroll /\ ret' = "none" /\ fixed' = FALSE
            \/ /\ panicked' = FALSE
               /\ scroll' = fix_scroll(ar, o.focused, scroll, o.lines, o.pos)
               /\ ret' = o.ret /\ fixed' = TRUE
       ELSE /\ panicked' = FALSE
            /\ scroll' = IF o.fix
                         THEN fix_scroll(ar, o.focused, scroll, o.lines, o.pos)
                         ELSE scroll
            /\ ret' = o.ret /\ fixed' = o.fix

Call(name, a, outcomes) ==
    /\ ~panicked
    /\ \E o \in outcomes : InBounds(o.lines) /\ Return(name, a, o, area)

\* InputField::new(a): an empty buffer, the focus, no scroll.
New(a) ==
    /\ lines = <<0>> /\ pos = Pos(0, 0)
    /\ area = a
    /\ focused = TRUE
    /\ scroll = Pos(0, 0)
    /\ new_line_keys = {}
    /\ panicked = FALSE
    /\ op = "new" /\ arg = <<>> /\ ret = "none" /\ fixed = FALSE /\ req = <<>>

Op_set_mono_line ==
    /\ ~panicked
    /\ new_line_keys' = {}
    /\ op' = "set_mono_line" /\ arg' = <<>> /\ ret' = "none" /\ fixed' = FALSE /\ req' = <<>>
    /\ UNCHANGED <<lines, pos, area, focused, scroll, panicked>>

Op_new_line_on(key) ==
    /\ ~panicked
    /\ new_line_keys' = new_line_keys \cup {key}
    /\ op' = "new_line_on" /\ arg' = <<>> /\ ret' = "none" /\ fixed' = FALSE /\ req' = <<>>
    /\ UNCHANGED <<lines, pos, area, focused, scroll, panicked>>

Op_change_area(x, y, w) ==
    /\ ~panicked
    /\ Return("change_area", <<>>, [Unhandled EXCEPT !.ret = "none", !.fix = TRUE],
              [area EXCEPT !.left = x, !.top = y, !.width = w])

Op_set_area(a) ==
    /\ ~panicked
    /\ Return("set_area", <<>>,
              [Unhandled EXCEPT !.ret = "none", !.fix = (area # a)], a)

Op_set_focus(b) ==
    Call("set_focus", <<>>,
         {[Unhandled EXCEPT !.ret = "none", !.focused = b, !.fix = b]})

Op_set_str(s) == Call("set_str", <<>>, set_str(s))

Op_insert_new_line == Call("insert_new_line", <<>>, insert_new_line)

Op_put_char == Call("put_char", <<>>, put_char)

Op_clear == Call("clear", <<>>, clear)

Op_del_char_below == Call("del_char_below", <<>>, del_char_below)

Op_insert_str(s) == Call("insert_str", <<>>, insert_str(s))

Op_wrap_content_fun(fun) == Call("wrap_content_fun", <<>>, wrap_content_fun(fun))

Op_page_up == Call("page_up", <<>>, page_up)

Op_page_down == Call("page_down", <<>>, page_down)

Op_apply_key_event(key) == Call("apply_key_event", key, apply_key_event(key))

Op_apply_keycode_event(code) ==
    Call("apply_keycode_event", code, apply_keycode_event(code))

Op_apply_click_event(x, y) ==
    Call("apply_click_event", Pos(x, y), apply_click_event(x, y))

Op_apply_event(event) == Call("apply_event", event, apply_event(event))

\* display_on reads the field and writes the cells display_on(j, i) to the
\* sink; it takes the scrollbar's column from the width as fix_scroll does.
Op_display_on ==
    /\ ~panicked
    /\ op' = "display_on" /\ arg' = <<>> /\ ret' = "none" /\ fixed' = FALSE
    /\ req' = <<>>
    /\ UNCHANGED <<lines, pos, area, focused, scroll, new_line_keys>>
    /\ IF HasScrollbar(area, Len(lines)) /\ area.width = 0
       THEN panicked' \in BOOLEAN
       ELSE panicked' = FALSE

\* ---------------------------------------------------------- specifications

\* The strings inserted.
InsertedStrs == {<<1>>, <<0, 0>>, <<1, 1>>}

\* Editing: a field whose area stays at the origin of the screen (where the
\* area is only matters to a click) is resized, focused, filled, edited and
\* walked through, by direct calls and by key codes.
EditAreas == {a \in Areas : a.left = 0 /\ a.top = 0}

Init == \E a \in EditAreas : New(a)

Next ==
    \/ \E w \in 0..MaxWidth : Op_change_area(0, 0, w)
    \/ \E a \in EditAreas : Op_set_area(a)
    \/ \E b \in BOOLEAN : Op_set_focus(b)
    \/ \E s \in Buffers : Op_set_str(s)
    \/ Op_insert_new_line
    \/ Op_put_char
    \/ Op_clear
    \/ Op_del_char_below
    \/ \E s \in InsertedStrs : Op_insert_str(s)
    \/ \E fun \in WrappedFuns : Op_wrap_content_fun(fun)
    \/ Op_page_up
    \/ Op_page_down
    \/ \E code \in KeyCodes : Op_apply_keycode_event(code)

Spec == Init /\ [][Next]_vars

\* Clicking: a field anywhere on the screen is filled, focused or not, and
\* clicked, directly and through apply_event.
ClickXs == 0..(MaxOffset + MaxWidth)

ClickYs == 0..(MaxOffset + MaxHeight)

ClickEvents == [type : {"Click"}, x : ClickXs, y : ClickYs]

InitClick == \E a \in Areas : New(a)

NextClick ==
    \/ \E b \in BOOLEAN : Op_set_focus(b)
    \/ \E s \in Buffers : Op_set_str(s)
    \/ \E x \in ClickXs, y \in ClickYs : Op_apply_click_event(x, y)
    \/ \E event \in ClickEvents : Op_apply_event(event)

SpecClick == InitClick /\ [][NextClick]_vars

\* The synchronizer alone: fix_scroll runs, again and again, on a field in any
\* state: a buffer of n lines of l characters, the cursor anywhere in it, any
\* size of area, focused or not, and a scroll left anywhere in the buffer
\* (the scroll goes stale when the field is not focused, after a click and
\* after del_char_below).
Op_fix_scroll ==
    /\ ~panicked
    /\ Return("fix_scroll", <<>>,
              [Unhandled EXCEPT !.ret = "none", !.fix = TRUE], area)

InitFix ==
    \E n \in 1..FixMaxLines, l \in 0..FixMaxLen :
        /\ lines = [i \in 1..n |-> l]
        /\ pos \in [x : 0..l, y : 0..(n - 1)]
        /\ scroll \in [x : 0..l, y : 0..(n - 1)]
        /\ area \in [left : {0}, top : {0},
                     width : 0..FixMaxWidth, height : 0..FixMaxHeight]
        /\ focused \in BOOLEAN
        /\ new_line_keys = {}
        /\ panicked = FALSE
        /\ op = "unknown" /\ arg = <<>> /\ ret = "none" /\ fixed = FALSE
        /\ req = <<>>

NextFix == Op_fix_scroll

SpecFix == InitFix /\ [][NextFix]_vars

\* Keys: a field is focused or not, keys are registered as new line keys, and
\* key events reach it through each of its three entry points.
TypedCodes == {"Enter", "Char", "Left"}

TypedKeys == [code : TypedCodes, modifiers : KeyModifiers]

KeyedEvents == [type : {"Key"}, key : TypedKeys] \cup {[type |-> "Resize"]}

InitKey == \E a \in EditAreas : New(a)

NextKey ==
    \/ \E b \in BOOLEAN : Op_set_focus(b)
    \/ Op_set_mono_line
    \/ \E key \in {ENTER, ALT_ENTER} : Op_new_line_on(key)
    \/ \E key \in TypedKeys : Op_apply_key_event(key)
    \/ \E code \in TypedCodes : Op_apply_keycode_event(code)
    \/ \E event \in KeyedEvents : Op_apply_event(event)

SpecKey == InitKey /\ [][NextKey]_vars

\* Rendering: a field wide enough for the ellipses is typed into, walked
\* through, clicked and displayed.
WideMaxLines == 2
WideMaxChars == 7
WideMaxWidth == 6

WideAreas == [left : {0}, top : {0}, width : 4..WideMaxWidth, height : {1}]

WideFuns == {"move_left", "move_right", "move_to_line_start"}

WideInBounds(ls) == Len(ls) <= WideMaxLines /\ Sum(ls) <= WideMaxChars

WideCall(name, a, outcomes) ==
    /\ ~panicked
    /\ \E o \in outcomes : WideInBounds(o.lines) /\ Return(name, a, o, area)

InitRender == \E a \in WideAreas : New(a)

NextRender ==
    \/ \E b \in BOOLEAN :
          WideCall("set_focus", <<>>,
                   {[Unhandled EXCEPT !.ret = "none", !.focused = b, !.fix = b]})
    \/ WideCall("put_char", <<>>, put_char)
    \/ WideCall("insert_new_line", <<>>, insert_new_line)
    \/ WideCall("del_char_below", <<>>, del_char_below)
    \/ \E fun \in WideFuns :
          WideCall("wrap_content_fun", <<>>, wrap_content_fun(fun))
    \/ \E x \in 0..(WideMaxWidth - 1) :
          WideCall("apply_click_event", Pos(x, 0), apply_click_event(x, 0))
    \/ Op_display_on

SpecRender == InitRender /\ [][NextRender]_vars

\* ------------------------------------------------------------------ claims

Max(a, b) == IF a > b THEN a ELSE b

CursorLineLen == LineLen(lines, pos.y)

\* The width fix_scroll works with: the area's, less the scrollbar's column.
Width == EffectiveWidth(lines, area)

\* The area has a row and a column at all.
HasCells == area.width >= 1 /\ area.height >= 1

\* fix_scroll would leave the scroll as it is.
Synced == scroll = fix_scroll(area, focused, scroll, lines, pos)

ClickedInside == AreaContains(area, arg'.x, arg'.y)

\* C1: when the field is focused and has more lines than the area has rows,
\* the cursor line is inside the window right after fix_scroll:
\* scroll.y <= cursor.y < scroll.y + height.  Stated for the areas that have
\* a row and a column at all.
C1_CursorLineVisible ==
    (fixed /\ focused /\ Len(lines) > area.height /\ HasCells)
        => (scroll.y <= pos.y /\ pos.y < scroll.y + area.height)

\* C2: when the field is focused and the cursor line is at least as long as
\* the effective width, the cursor column is inside the window right after
\* fix_scroll: scroll.x <= cursor.x < scroll.x + effective_width.  Stated
\* for the effective widths of 2 columns and more.
C2_CursorColumnVisible ==
    (fixed /\ focused /\ CursorLineLen >= Width /\ Width >= 2)
        => (scroll.x <= pos.x /\ pos.x < scroll.x + Width)

\* C3: after every public operation, scroll.y <= max(0, line_count - height).
\* Stated for the areas that have a row and a column at all.
C3_VerticalClamp ==
    (~panicked /\ HasCells) => scroll.y <= Max(0, Len(lines) - area.height)

C5_FixScrollIdempotent ==
    [][(fixed /\ fixed' /\ lines' = lines /\ pos' = pos /\ area' = area
            /\ focused' = focused /\ HasCells)
        => scroll' = scroll]_vars

\* C6: when apply_keycode_event returns true, fix_scroll has run.
C6_KeyChangeResyncs ==
    (op = "apply_keycode_event" /\ ret = "true") => fixed

\* C7: a click that moves the cursor or gives the focus leaves a scroll that
\* fix_scroll would not change.  Stated for the clicks on a field whose
\* scroll was one fix_scroll would not change.
C7_ClickResyncs ==
    [][(op' = "apply_click_event" /\ ret' = "true" /\ Synced) => Synced']_vars

\* C8: a click outside the area returns false and leaves focus, scroll,
\* cursor and content as they were, focused or not.
C8_ClickOutside ==
    [][(op' = "apply_click_event" /\ ~ClickedInside)
        => (ret' = "false" /\ UNCHANGED <<focused, scroll, pos, lines>>)]_vars

\* An unfocused, scrolled field was clicked beside its area, which has cells.
C8_Witness ==
    /\ op = "apply_click_event"
    /\ ~AreaContains(area, arg.x, arg.y)
    /\ area.width > 0 /\ area.height > 0
    /\ ~focused /\ scroll.x > 0 /\ scroll.y > 0

\* C9: a click inside the area of an unfocused field gives the focus,
\* returns true and leaves cursor and content as they were.
C9_ClickGivesFocus ==
    [][(op' = "apply_click_event" /\ ClickedInside /\ ~focused)
        => (focused' /\ ret' = "true" /\ UNCHANGED <<pos, lines>>)]_vars

\* A click has given the focus, on a cell that is not the cursor's.
C9_Witness ==
    /\ op = "apply_click_event" /\ ret = "true" /\ req = <<>>
    /\ focused
    /\ pos # content_set_cursor_pos(lines, ClickPos(arg.x, arg.y))

\* C10: a click inside the area of a focused field returns true and asks the
\* buffer for the cursor at (x - left + scroll.x, y - top + scroll.y), with
\* the scroll of the time of the click; the buffer places it there, and
\* focus, content and scroll are as they were.
C10_ClickPlacesCursor ==
    [][(op' = "apply_click_event" /\ ClickedInside /\ focused)
        => /\ ret' = "true"
           /\ req' = Pos(arg'.x - area.left + scroll.x,
                         arg'.y - area.top + scroll.y)
           /\ pos' = content_set_cursor_pos(lines, req')
           /\ focused' /\ lines' = lines /\ scroll' = scroll]_vars

\* A click has moved the cursor in a scrolled field away from the origin.
C10_Witness ==
    /\ op = "apply_click_event" /\ req # <<>>
    /\ scroll.x > 0 /\ scroll.y > 0 /\ area.left > 0 /\ area.top > 0
    /\ pos = req /\ pos.x > 0

\* The buffer, the cursor, the scroll and the focus.
FieldState == <<lines, pos, scroll, focused>>

KeyDelivered ==
    \/ op' \in {"apply_key_event", "apply_keycode_event"}
    \/ op' = "apply_event" /\ arg'.type = "Key"

\* C11: a key event whose modifiers are neither empty nor exactly Shift, and
\* which is not a registered new line key, makes apply_key_event return false
\* and leave content, cursor, scroll and focus as they were.
C11_ModifiedKeyUnhandled ==
    [][(op' = "apply_key_event" /\ arg'.modifiers \notin {"NONE", "SHIFT"}
            /\ arg' \notin new_line_keys)
        => (ret' = "false" /\ UNCHANGED FieldState)]_vars

\* A focused field with a new line key registered was given Ctrl and a
\* character.
C11_Witness ==
    /\ op = "apply_key_event" /\ focused /\ new_line_keys # {}
    /\ arg = [code |-> "Char", modifiers |-> "CONTROL"]
    /\ ret = "false" /\ lines # <<0>>

\* C12: while focused, a key event that is a registered new line key makes
\* apply_key_event insert a line break, run fix_scroll and return true,
\* whatever its modifiers and whatever the key code dispatch does with its
\* code.  Stated for the calls that return.
C12_NewLineKeyFirst ==
    [][(op' = "apply_key_event" /\ focused /\ arg' \in new_line_keys
            /\ ~panicked')
        => LET c == content_insert_new_line(lines, pos)
           IN /\ ret' = "true" /\ fixed'
              /\ lines' = c.lines /\ pos' = c.pos
              /\ scroll' = fix_scroll(area, TRUE, scroll, c.lines, c.pos)]_vars

\* A registered Alt+Enter has broken a line.
C12_Witness ==
    /\ op = "apply_key_event" /\ arg = ALT_ENTER /\ ret = "true"
    /\ Len(lines) > 1 /\ pos.x = 0 /\ pos.y > 0

\* C13: apply_event(Event::Key(k)) returns what apply_key_event(k) returns
\* and leaves the content, the cursor and the scroll apply_key_event(k)
\* leaves.  Stated for the calls that return.
C13_EventAsKeyEvent ==
    [][(op' = "apply_event" /\ arg'.type = "Key" /\ ~panicked')
        => \E o \in apply_key_event(arg'.key) :
              /\ ret' = o.ret /\ lines' = o.lines /\ pos' = o.pos
              /\ scroll' = IF o.fix
                           THEN fix_scroll(area, o.focused, scroll,
                                           o.lines, o.pos)
                           ELSE scroll]_vars

\* C14: while the field is not focused, apply_key_event, apply_keycode_event
\* and apply_event on a key return false and leave content, cursor, scroll
\* and focus as they were.
C14_UnfocusedIgnoresKeys ==
    [][(~focused /\ KeyDelivered)
        => (ret' = "false" /\ UNCHANGED FieldState)]_vars

\* An unfocused field was given a key that is registered as a new line key.
C14_Witness ==
    /\ ~focused /\ op = "apply_key_event" /\ arg \in new_line_keys
    /\ ret = "false" /\ lines # <<0>>

\* C15: on an area with a width or a height of 0, no operation fails and no
\* unsigned subtraction goes below zero: fix_scroll neither aborts nor has
\* taken 1 from a width of 0.
C15_NoUnderflow ==
    (area.width = 0 \/ area.height = 0)
        => (~panicked /\ ~(fixed /\ WidthUnderflows(lines, area)))

\* The scroll.x C16 gives for a line of len characters typed in w columns.
TypedScrollX(len, w) == IF len < w THEN 0 ELSE len + 1 - w

\* C16: in a focused field of one line, without scrollbar, whose cursor is
\* at the end of the line, put_char leaves scroll.x = 0 while the line is
\* shorter than the width and scroll.x = line length + 1 - width once it is
\* not.  Stated for a field typed into from scroll.x = 0, so that its scroll
\* before the character is the one the claim gives, and for the areas of a
\* row and of 2 columns at least.
C16_TypingAtEndOfLine ==
    [][(op' = "put_char" /\ focused /\ Len(lines) = 1
            /\ area.width >= 2 /\ area.height >= 1
            /\ pos.x = CursorLineLen
            /\ scroll.x = TypedScrollX(CursorLineLen, area.width))
        => scroll'.x = TypedScrollX(CursorLineLen + 1, area.width)]_vars

CursorOnLastLine ==
    fixed /\ focused /\ Len(lines) > area.height /\ pos.y = Len(lines) - 1

\* C17, as claimed: whenever the field is focused, has more lines than the
\* area has rows, and the cursor is on the last line, fix_scroll leaves
\* scroll.y = line_count - height, whatever the height.  Stated for the
\* areas of one column at least.
C17_LastLinesShownAnyHeight ==
    (CursorOnLastLine /\ area.width >= 1)
        => scroll.y = Len(lines) - area.height

\* C17, amended: in an area of one row at least, when the field is focused,
\* has more lines than the area has rows, and the cursor is on the last line,
\* fix_scroll leaves scroll.y = line_count - height: the window shows the
\* last `height` lines.
C17_LastLinesShown ==
    (CursorOnLastLine /\ area.height >= 1)
        => scroll.y = Len(lines) - area.height

\* fix_scroll ran with the cursor on line 5 of 6, in an area of 3 rows.
C17_Witness ==
    /\ op = "fix_scroll" /\ CursorOnLastLine
    /\ area.height = 3 /\ Len(lines) = 6 /\ scroll.y = 3

\* C18: a wrapped movement or deletion, page_up and page_down return false,
\* do not run fix_scroll and leave the scroll as it was when the buffer
\* reports no change; they return true and have run fix_scroll when it
\* reports one.  Stated for the calls that return.
C18_NoChangeInert ==
    [][(op' \in {"wrap_content_fun", "page_up", "page_down"} /\ ~panicked')
        => IF lines' = lines /\ pos' = pos
           THEN ret' = "false" /\ ~fixed' /\ scroll' = scroll
           ELSE ret' = "true" /\ fixed']_vars

\* A movement that moved nothing has left a scroll fix_scroll would change.
C18_Witness ==
    /\ op \in {"wrap_content_fun", "page_up", "page_down"}
    /\ ret = "false" /\ ~fixed /\ HasCells /\ ~Synced

\* The margin C20 gives for an effective width of w columns.
Margin(w) == IF w < 4 THEN 1 ELSE 2

\* The cursor column px is in the band of a window of w columns at sx.
InBand(sx, w, px) == sx + Margin(w) <= px /\ px <= sx + w - Margin(w)

\* C20: when the field is focused and the cursor line is at least as long as
\* the effective width, fix_scroll changes scroll.x only if the cursor is
\* outside the band [scroll.x + margin, scroll.x + effective_width - margin]
\* or the end clamp is violated; and when the cursor is outside the band it
\* leaves a scroll.x whose band holds the cursor, or one that is 0 or
\* line length + 1 - effective_width.  Stated for the effective widths of 2
\* columns and more.
C20_Hysteresis ==
    [][(op' = "fix_scroll" /\ fixed' /\ focused /\ Width >= 2
            /\ CursorLineLen >= Width)
        => /\ scroll'.x # scroll.x
                  => \/ ~InBand(scroll.x, Width, pos.x)
                     \/ scroll.x + Width > CursorLineLen + 1
           /\ ~InBand(scroll.x, Width, pos.x)
                  => \/ InBand(scroll'.x, Width, pos.x)
                     \/ scroll'.x \in {0, CursorLineLen + 1 - Width}]_vars

\* The cells display_on writes for the buffer: the rows of the area, the
\* columns left of the scrollbar.
PaintedCells == (0..(area.height - 1)) \X (0..(DisplayWidth - 1))

\* C19: in every state display_on is called in, the cell at row j, column i
\* has the cursor style if and only if the field is focused and
\* (scroll.x + i, scroll.y + j) is the cursor position.  Stated for the
\* areas of one column at least.
C19_CursorHighlight ==
    (op = "display_on" /\ ~panicked /\ area.width >= 1)
        => \A c \in PaintedCells :
              display_on(c[1], c[2]).style = "cursor"
                  <=> (focused /\ Pos(scroll.x + c[2], scroll.y + c[1]) = pos)

====
